---- MODULE Spec2Model ----
(***************************************************************************)
(* State synchronisation engine of the notes board (src/script.js).  The    *)
(* file holds the script twice: lines 1-441, the copy Spec follows, and    *)
(* lines 443-847, an earlier copy, which Spec_Copy2 follows.  Every        *)
(* handler of the script runs to completion on the single control thread;  *)
(* a handler that awaits a network call is split at the await: one action  *)
(* up to the request, one action for the continuation that runs when the   *)
(* response arrives.                                                       *)
(*                                                                         *)
(* Time is kept relative to Date.now(): a timer variable holds the         *)
(* milliseconds left until its callback runs, timeSinceLastSave holds      *)
(* Date.now() - lastSaveTime (line 57), cut off at MIN_SAVE_INTERVAL, the  *)
(* only value it is compared with.  Tick lets TimeStep milliseconds pass.  *)
(* The interval timer of startPolling is not measured: once Tick has let   *)
(* time pass, its callback may run (pollDue).                              *)
(***************************************************************************)
EXTENDS Integers, Sequences, FiniteSets, TLC

\* ---------------------------------------------------------------- constants
DEBOUNCE_DELAY == 500
\* DEBOUNCE_DELAY of the second copy
DEBOUNCE_DELAY_Copy2 == 1000
\* the same value in both copies
LONG_PRESS_DURATION == 500
MIN_SAVE_INTERVAL == 2000
NewWidth == 260
NewHeight == 200

\* ---------------------------------------------------------------- bounds
\* the time one Tick lets pass; a handler that runs when a timer has reached
\* 0 and before its callback runs comes within the timer's delay
TimeStep == DEBOUNCE_DELAY
\* notes on the board when a note is created
MaxNotes == 2
\* POST requests in flight, and GET requests in flight
MaxInFlight == 2
MaxFetches == MaxInFlight
\* instants (values of Date.now()) at which notes are created
MaxStamps == MaxNotes
\* gestures of the user in one run (typing, resizing, pointer events, clicks)
MaxGestures == 3

\* ---------------------------------------------------------------- values
NoId == <<>>
NoTimer == -1
NoBody == << <<>> >>
NoResp == "none"
\* no run of content edits is waiting for its debounced write
NoBurst == [id |-> NoId, content |-> "", n |-> 0]

\* property insertion orders of a note object: the order of the literal in
\* createNewNote, and another order a remote store may answer with
StdKeys == <<"id", "content", "x", "y", "width", "height">>
AltKeys == <<"id", "x", "y", "width", "height", "content">>

\* what the user types, where a card is dropped, what a card is resized to,
\* results of Math.random() in generateId and in createNewNote
Contents == {"h", "hi"}
Positions == {<<50, 50>>, <<80, 90>>}
Sizes == {<<300, 220>>}
Rand == {1, 2}
NewPositions == {<<50, 50>>}

\* notes the remote store holds
NoteA == [id |-> <<0, 1>>, content |-> "", x |-> 50, y |-> 50,
          width |-> 260, height |-> 200, keys |-> StdKeys]
NoteB == [id |-> <<0, 2>>, content |-> "", x |-> 80, y |-> 90,
          width |-> 260, height |-> 200, keys |-> StdKeys]
NoteAAlt == [NoteA EXCEPT !.keys = AltKeys]
AbsentId == <<0, 9>>

\* bodies a GET is answered with: an array of notes (the store returns what
\* it was sent and checks nothing: the last array holds one note twice), a
\* body whose `notes` is missing or no array, or a transport/decode error
Snapshots == {<<>>, <<NoteA>>, <<NoteA, NoteB>>, <<NoteAAlt>>, <<NoteA, NoteA>>}
GetResponses ==
    {[kind |-> "array", notes |-> s] : s \in Snapshots}
    \cup {[kind |-> k, notes |-> <<>>] : k \in {"missing", "error"}}
PostResponses == {"success", "rejected", "error"}

VARIABLES
    notes,             \* Board State
    selectedNoteId,
    draggedNote,       \* id of the card being dragged, NoId for null
    longPressTimer,    \* the timer whose handle the variable holds: ms until it
                       \* fires, NoTimer when it was cleared or has run
    pressTimers,       \* long-press timers still pending whose handle a later
                       \* pointerdown has overwritten: ms left, note of the card
    saveDebounceTimer, \* ms until the pending timer fires, NoTimer when none
    isSaving,
    isUpdating,        \* the flag of the second copy of the script (line 459);
                       \* the first copy has no such variable
    timeSinceLastSave, \* Date.now() - lastSaveTime, at most MIN_SAVE_INTERVAL
    started,           \* DOMContentLoaded has run
    pollTimer,         \* the interval of startPolling is set and not cleared
    pollDue,           \* the interval callback of startPolling is due
    fetches,           \* number of GET requests in flight
    writes,            \* number of POST requests in flight
    raf,               \* animation-frame callbacks queued by pointermove, in
                       \* the order queued: <<id, x, y>> each
    stamp,             \* Date.now() as generateId reads it: index of the instant
    stampUsed,         \* a note was created at this instant
    gestures,          \* number of gestures so far
    ev,                \* what the last handler run did
    sinceSuccess,      \* history: ms since a write last settled with "success",
                       \* MIN_SAVE_INTERVAL when that long ago or never
    burst,             \* history: the content edits of one note that wait for the
                       \* pending debounce timer (note, last content, number of
                       \* edits), NoBurst when none
    sinceCall          \* history: ms since saveNotesToAPI was last called,
                       \* NoTimer when the timer it started has run or was cleared

vars == <<notes, selectedNoteId, draggedNote, longPressTimer, pressTimers,
          saveDebounceTimer, isSaving, timeSinceLastSave, started, pollTimer,
          pollDue, fetches, writes, raf,
          stamp, stampUsed, gestures, ev, sinceSuccess, burst, sinceCall,
          isUpdating>>

\* ---------------------------------------------------------------- helpers
Has(ns, id) == \E i \in 1 .. Len(ns) : ns[i].id = id

\* a lookup that falls back on the first note
Find_OrFirst(ns, id) ==
    IF Has(ns, id) THEN CHOOSE i \in 1 .. Len(ns) : ns[i].id = id
    ELSE IF ns = <<>> THEN 0 ELSE 1
\* notes.find(n => n.id === id): index of the first match, 0 when none
Find(ns, id) ==
    IF Has(ns, id) THEN CHOOSE i \in 1 .. Len(ns) :
                            /\ ns[i].id = id
                            /\ \A j \in 1 .. i - 1 : ns[j].id # id
    ELSE 0

\* notes.filter(n => n.id !== id)
Filter(ns, id) == SelectSeq(ns, LAMBDA n : n.id # id)

\* JSON.stringify of one note: its properties in insertion order
StringifyNote(n) == [i \in 1 .. Len(n.keys) |-> <<n.keys[i], n[n.keys[i]]>>]
\* JSON.stringify(notes)
JSONstringify(ns) == [i \in 1 .. Len(ns) |-> StringifyNote(ns[i])]

\* what a handler run did: the GET and the POST body it issued, renderNotes,
\* the assignment to `notes` of line 85, the response it was answered with,
\* what it found: isSaving, and the edits waiting for the timer, the id a
\* mutator was called with, and how long ago the debounce timer that the run
\* cancelled (a mutator) or that ran (the timer's callback) had been started
Event(op) == [op |-> op, fetch |-> FALSE, body |-> NoBody,
              render |-> FALSE, replace |-> FALSE, resp |-> NoResp,
              saving |-> FALSE, burst |-> NoBurst, id |-> NoId,
              waited |-> NoTimer]

\* the cards the user's gestures address: every card renderNotes has made
Targets(ns) == {ns[i].id : i \in 1 .. Len(ns)}

\* one more gesture of the user
Gesture == gestures < MaxGestures /\ gestures' = gestures + 1

Init ==
    /\ notes = <<>>
    /\ selectedNoteId = NoId
    /\ draggedNote = NoId
    /\ longPressTimer = NoTimer
    /\ pressTimers = <<>>
    /\ saveDebounceTimer = NoTimer
    /\ isSaving = FALSE
    /\ isUpdating = FALSE
    /\ timeSinceLastSave = MIN_SAVE_INTERVAL
    /\ started = FALSE
    /\ pollTimer = FALSE
    /\ pollDue = FALSE
    /\ fetches = 0
    /\ writes = 0
    /\ raf = <<>>
    /\ stamp = 1
    /\ stampUsed = FALSE
    /\ gestures = 0
    /\ ev = Event("init")
    /\ sinceSuccess = MIN_SAVE_INTERVAL
    /\ burst = NoBurst
    /\ sinceCall = NoTimer

\* ---------------------------------------------------------------- reads
\* the first guard without the grace window
TooSoonAfterSave_Never == FALSE
\* the first guard with its comparison turned round
TooSoonAfterSave_Inverted == timeSinceLastSave >= MIN_SAVE_INTERVAL
\* lines 57-58: Date.now() - lastSaveTime < MIN_SAVE_INTERVAL
TooSoonAfterSave == timeSinceLastSave < MIN_SAVE_INTERVAL

\* line 64: isSaving || draggedNote
SavingOrDragging == isSaving \/ draggedNote # NoId

\* loadNotesFromAPI up to `await fetch(API_URL)`: the two guards, then the GET
\* (showIndicator only shows and hides the loading indicator)
LoadNotesFromAPI(e) ==
    IF TooSoonAfterSave \/ SavingOrDragging
    THEN /\ ev' = e
         /\ UNCHANGED fetches
    ELSE /\ fetches < MaxFetches
         /\ fetches' = fetches + 1
         /\ ev' = [e EXCEPT !.fetch = TRUE]

\* the check of line 79 that only looks for a decoded body
WellFormed_AnyBody(resp) == resp.kind # "error"
\* line 79: data.notes && Array.isArray(data.notes)
WellFormed(resp) == resp.kind = "array"

\* a comparison of the two lengths only
Differs_ByLength(old, new) == Len(old) # Len(new)
\* lines 81-84: oldJson !== newJson
Differs(old, new) == JSONstringify(old) # JSONstringify(new)

\* loadNotesFromAPI after the awaits: a GET in flight is answered `resp`
LoadSettle(resp) ==
    /\ gestures' = gestures
    /\ fetches > 0
    /\ fetches' = fetches - 1
    /\ IF WellFormed(resp) /\ Differs(notes, resp.notes)
       THEN /\ notes' = resp.notes
            /\ burst' = NoBurst
            /\ ev' = [Event("loadSettle") EXCEPT !.render = TRUE, !.replace = TRUE,
                                                 !.resp = resp]
       ELSE /\ notes' = notes
            /\ burst' = burst
            /\ ev' = [Event("loadSettle") EXCEPT !.resp = resp]
    /\ UNCHANGED <<selectedNoteId, draggedNote, longPressTimer, pressTimers,
                   saveDebounceTimer, isSaving, timeSinceLastSave, started,
                   pollTimer, pollDue, writes, raf, stamp, stampUsed,
                   sinceSuccess, sinceCall, isUpdating>>

\* the DOMContentLoaded handler: loadNotesFromAPI(true); startPolling()
DOMContentLoaded ==
    /\ gestures' = gestures
    /\ ~started
    /\ started' = TRUE
    /\ pollTimer' = TRUE
    /\ LoadNotesFromAPI(Event("DOMContentLoaded"))
    /\ UNCHANGED <<notes, selectedNoteId, draggedNote, longPressTimer,
                   pressTimers, saveDebounceTimer, isSaving,
                   timeSinceLastSave, pollDue, writes, raf, stamp, stampUsed,
                   sinceSuccess, burst, sinceCall, isUpdating>>

\* the setInterval callback of startPolling
PollTick ==
    /\ gestures' = gestures
    /\ pollTimer
    /\ pollDue
    /\ pollDue' = FALSE
    /\ LoadNotesFromAPI(Event("poll"))
    /\ UNCHANGED <<notes, selectedNoteId, draggedNote, longPressTimer,
                   pressTimers, saveDebounceTimer, isSaving,
                   timeSinceLastSave, started, pollTimer, writes, raf, stamp,
                   stampUsed, sinceSuccess, burst, sinceCall, isUpdating>>

\* the beforeunload listener: stopPolling() clears the interval, and with it
\* a callback that is due and has not run
BeforeUnload ==
    /\ Gesture
    /\ pollTimer' = FALSE
    /\ pollDue' = FALSE
    /\ ev' = Event("beforeunload")
    /\ UNCHANGED <<notes, selectedNoteId, draggedNote, longPressTimer,
                   pressTimers, saveDebounceTimer, isSaving,
                   timeSinceLastSave, started, fetches, writes, raf, stamp,
                   stampUsed, sinceSuccess, burst, sinceCall, isUpdating>>

\* ---------------------------------------------------------------- writes
\* a call that finds a timer pending and leaves it running
SaveNotesToAPI_KeepPending ==
    IF saveDebounceTimer # NoTimer THEN saveDebounceTimer ELSE DEBOUNCE_DELAY
\* saveNotesToAPI: clearTimeout of the pending timer, then a new timer
SaveNotesToAPI == DEBOUNCE_DELAY

\* a body that holds the first note only
Body_FirstNote(ns) == JSONstringify(IF ns = <<>> THEN ns ELSE <<ns[1]>>)
\* the POST of the three writers: body JSON.stringify({ notes: notes })
Body(ns) == JSONstringify(ns)

\* a callback that never finds a write in flight
AlreadySaving_Never == FALSE
\* line 107: if (isSaving) return
AlreadySaving == isSaving

\* the setTimeout callback of saveNotesToAPI up to `await fetch`
DebounceFire ==
    /\ gestures' = gestures
    /\ saveDebounceTimer = 0
    /\ saveDebounceTimer' = NoTimer
    /\ burst' = NoBurst
    /\ sinceCall' = NoTimer
    /\ IF AlreadySaving
       THEN /\ ev' = [Event("debounceFire") EXCEPT !.saving = isSaving,
                                                   !.burst = burst,
                                                   !.waited = sinceCall]
            /\ UNCHANGED <<isSaving, writes>>
       ELSE /\ writes < MaxInFlight
            /\ isSaving' = TRUE
            /\ writes' = writes + 1
            /\ ev' = [Event("debounceFire") EXCEPT !.body = Body(notes),
                                                   !.saving = isSaving,
                                                   !.burst = burst,
                                                   !.waited = sinceCall]
    /\ UNCHANGED <<notes, selectedNoteId, draggedNote, longPressTimer,
                   pressTimers, timeSinceLastSave, started, pollTimer,
                   pollDue, fetches, raf, stamp, stampUsed, sinceSuccess,
                   isUpdating>>

\* every settled POST taken for a success
Succeeded_Always(resp) == TRUE
\* lines 128-131, 214-217, 256-259: data.status === 'success'
Succeeded(resp) == resp = "success"

\* a failure that schedules the write again
OnWriteFailure_Retry == DEBOUNCE_DELAY
\* lines 131-135, 218-219, 260-261: the else branch and the catch blocks only
\* log; the debounce timer stays as it is
OnWriteFailure == saveDebounceTimer

\* the continuation of a writer after its awaits, and its finally block (the
\* same statements in saveNotesToAPI, createNewNote and deleteSelectedNote)
WriteSettle(resp) ==
    /\ gestures' = gestures
    /\ writes > 0
    /\ writes' = writes - 1
    /\ IF Succeeded(resp)
       THEN timeSinceLastSave' = 0
       ELSE UNCHANGED timeSinceLastSave
    /\ sinceSuccess' = IF resp = "success" THEN 0 ELSE sinceSuccess
    /\ isSaving' = FALSE
    /\ saveDebounceTimer' = IF Succeeded(resp) THEN saveDebounceTimer
                            ELSE OnWriteFailure
    /\ ev' = [Event("writeSettle") EXCEPT !.resp = resp]
    /\ UNCHANGED <<notes, selectedNoteId, draggedNote, longPressTimer,
                   pressTimers, started, pollTimer, pollDue, fetches, raf,
                   stamp, stampUsed, burst, sinceCall, isUpdating>>

\* ---------------------------------------------------------------- notes
\* generateId: Date.now().toString(36) + Math.random().toString(36).substr(2)
generateId(r) == <<stamp, r>>

\* the pending timer left as it is
ClearDebounce_Keep == saveDebounceTimer
\* lines 196-198, 238-240: clearTimeout(saveDebounceTimer)
ClearDebounce == NoTimer

\* createNewNote up to `await fetch`
CreateNewNote(r, pos) ==
    /\ Gesture
    /\ started
    /\ Len(notes) < MaxNotes
    /\ stamp <= MaxStamps
    /\ writes < MaxInFlight
    /\ notes' = Append(notes, [id |-> generateId(r), content |-> "",
                               x |-> pos[1], y |-> pos[2],
                               width |-> NewWidth, height |-> NewHeight,
                               keys |-> StdKeys])
    /\ stampUsed' = TRUE
    /\ saveDebounceTimer' = ClearDebounce
    /\ isSaving' = TRUE
    /\ writes' = writes + 1
    /\ burst' = NoBurst
    /\ sinceCall' = NoTimer
    /\ ev' = [Event("create") EXCEPT !.render = TRUE, !.body = Body(notes'),
                                     !.saving = isSaving, !.burst = burst]
    /\ UNCHANGED <<selectedNoteId, draggedNote, longPressTimer, pressTimers,
                   timeSinceLastSave, started, pollTimer, pollDue, fetches,
                   raf, stamp, sinceSuccess, isUpdating>>

\* a delete that goes on without a selection
NothingSelected_Never == FALSE
\* line 226: if (!selectedNoteId) return
NothingSelected == selectedNoteId = NoId

\* deleteSelectedNote up to `await fetch`
DeleteSelectedNote ==
    /\ Gesture
    /\ started
    /\ IF NothingSelected
       THEN /\ ev' = Event("delete")
            /\ UNCHANGED <<notes, selectedNoteId, saveDebounceTimer, isSaving,
                           writes, burst, sinceCall>>
       ELSE /\ writes < MaxInFlight
            /\ notes' = Filter(notes, selectedNoteId)
            /\ selectedNoteId' = NoId
            /\ saveDebounceTimer' = ClearDebounce
            /\ isSaving' = TRUE
            /\ writes' = writes + 1
            /\ burst' = NoBurst
            /\ sinceCall' = NoTimer
            /\ ev' = [Event("delete") EXCEPT !.render = TRUE, !.body = Body(notes'),
                                             !.saving = isSaving, !.burst = burst]
    /\ UNCHANGED <<draggedNote, longPressTimer, pressTimers,
                   timeSinceLastSave, started, pollTimer, pollDue, fetches,
                   raf, stamp, stampUsed, sinceSuccess, isUpdating>>

\* one call of a mutator on board `ns`: notes.find and the assignments
Assign(ns, id, fields) ==
    LET i == Find(ns, id) IN
       IF i = 0 THEN ns
       ELSE [ns EXCEPT ![i] =
               [k \in DOMAIN ns[i] |->
                   IF k \in DOMAIN fields THEN fields[k] ELSE ns[i][k]]]

\* calls of a mutator, one after the other
RECURSIVE AssignAll(_, _)
AssignAll(ns, calls) ==
    IF calls = <<>> THEN ns
    ELSE AssignAll(Assign(ns, calls[1].id, calls[1].fields), Tail(calls))

\* the three mutators, called once or (the callbacks of one animation frame)
\* several times in a row: notes.find, the assignments, saveNotesToAPI().
\* `ev` keeps the id of the last call that found its note, or of the last
\* call when none did, and the age of the timer that call cancelled
Update(calls, op) ==
    LET hits == SelectSeq(calls, LAMBDA c : Find(notes, c.id) # 0)
        last == hits[Len(hits)]
    IN IF hits # <<>>
       THEN /\ notes' = AssignAll(notes, calls)
            /\ saveDebounceTimer' = SaveNotesToAPI
            /\ sinceCall' = 0
            /\ burst' = IF op # "content" THEN burst
                        ELSE [id |-> last.id, content |-> last.fields.content,
                              n |-> IF burst.id = last.id THEN burst.n + 1 ELSE 1]
            /\ ev' = [Event(op) EXCEPT !.burst = burst', !.id = last.id,
                                       !.waited = IF Len(hits) > 1 THEN 0
                                                  ELSE sinceCall]
       ELSE /\ UNCHANGED <<notes, saveDebounceTimer, burst, sinceCall>>
            /\ ev' = [Event(op) EXCEPT !.id = calls[Len(calls)].id]

updateNoteContent(id, content) ==
    Update(<<[id |-> id, fields |-> [content |-> content]]>>, "content")
\* the calls of one animation frame: <<id, x, y>> each
updateNotePosition(frames) ==
    Update([i \in 1 .. Len(frames) |->
               [id |-> frames[i][1],
                fields |-> [x |-> frames[i][2], y |-> frames[i][3]]]], "position")
updateNoteSize(id, width, height) ==
    Update(<<[id |-> id, fields |-> [width |-> width, height |-> height]]>>, "size")

\* the textarea's input listener
Input(id, content) ==
    /\ Gesture
    /\ started
    /\ updateNoteContent(id, content)
    /\ UNCHANGED <<selectedNoteId, draggedNote, longPressTimer, pressTimers,
                   isSaving, timeSinceLastSave, started, pollTimer, pollDue,
                   fetches, writes, raf, stamp, stampUsed, sinceSuccess,
                   isUpdating>>

\* the ResizeObserver callback of a card: the observer reports a size, the
\* one the note has or another (a card that left the board reports for an id
\* that is gone)
Resize(id, size) ==
    /\ Gesture
    /\ started
    /\ updateNoteSize(id, size[1], size[2])
    /\ UNCHANGED <<selectedNoteId, draggedNote, longPressTimer, pressTimers,
                   isSaving, timeSinceLastSave, started, pollTimer, pollDue,
                   fetches, writes, raf, stamp, stampUsed, sinceSuccess,
                   isUpdating>>

\* ---------------------------------------------------------------- gestures
\* pointerdown on the card of note `id`, away from its resize corner (on the
\* corner the handler returns at once).  The handler starts a timer without
\* clearing the one whose handle longPressTimer holds: that timer, started
\* by the pointerdown on the card draggedNote, stays pending.
PointerDown(id) ==
    /\ Gesture
    /\ started
    /\ Has(notes, id)
    /\ pressTimers' = IF longPressTimer = NoTimer THEN pressTimers
                      ELSE Append(pressTimers, [left |-> longPressTimer,
                                                id |-> draggedNote])
    /\ longPressTimer' = LONG_PRESS_DURATION
    /\ draggedNote' = id
    /\ ev' = Event("pointerdown")
    /\ UNCHANGED <<notes, selectedNoteId, saveDebounceTimer, isSaving,
                   timeSinceLastSave, started, pollTimer, pollDue, fetches,
                   writes, raf, stamp, stampUsed, sinceSuccess, burst,
                   sinceCall, isUpdating>>

\* pointermove while a card is dragged: queues one more animation-frame
\* callback, whether or not callbacks are waiting for the frame
PointerMove(pos) ==
    /\ Gesture
    /\ draggedNote # NoId
    /\ longPressTimer' = NoTimer
    /\ raf' = Append(raf, <<draggedNote, pos[1], pos[2]>>)
    /\ ev' = Event("pointermove")
    /\ UNCHANGED <<pressTimers, notes, selectedNoteId, draggedNote,
                   saveDebounceTimer, isSaving, timeSinceLastSave, started,
                   pollTimer, pollDue, fetches, writes, stamp, stampUsed,
                   sinceSuccess, burst, sinceCall, isUpdating>>

\* an animation frame: the callbacks requestAnimationFrame has queued run
\* one after the other, in the order queued
AnimationFrame ==
    /\ gestures' = gestures
    /\ raf # <<>>
    /\ updateNotePosition(raf)
    /\ raf' = <<>>
    /\ UNCHANGED <<selectedNoteId, draggedNote, longPressTimer, pressTimers,
                   isSaving, timeSinceLastSave, started, pollTimer, pollDue,
                   fetches, writes, stamp, stampUsed, sinceSuccess,
                   isUpdating>>

PointerUp ==
    /\ Gesture
    /\ draggedNote # NoId
    /\ longPressTimer' = NoTimer
    /\ draggedNote' = NoId
    /\ ev' = Event("pointerup")
    /\ UNCHANGED <<pressTimers, notes, selectedNoteId, saveDebounceTimer,
                   isSaving, timeSinceLastSave, started, pollTimer, pollDue,
                   fetches, writes, raf, stamp, stampUsed, sinceSuccess,
                   burst, sinceCall, isUpdating>>

\* a timer is due: timers that are due run in the order they were started
Due(timers) == timers # <<>> /\ timers[1].left = 0

\* the long-press timer callback, of a timer whose handle was overwritten:
\* selectNote(note.id) for the note of the card that was pressed
LongPressOverwritten ==
    /\ gestures' = gestures
    /\ Due(pressTimers)
    /\ pressTimers' = Tail(pressTimers)
    /\ selectedNoteId' = pressTimers[1].id
    /\ ev' = Event("select")
    /\ UNCHANGED <<notes, draggedNote, longPressTimer, saveDebounceTimer,
                   isSaving, timeSinceLastSave, started, pollTimer, pollDue,
                   fetches, writes, raf, stamp, stampUsed, sinceSuccess,
                   burst, sinceCall, isUpdating>>

\* the long-press timer callback: selectNote(note.id); the card of the timer
\* that longPressTimer holds is draggedNote
LongPress ==
    /\ gestures' = gestures
    /\ longPressTimer = 0
    /\ ~Due(pressTimers)
    /\ longPressTimer' = NoTimer
    /\ selectedNoteId' = draggedNote
    /\ ev' = Event("select")
    /\ UNCHANGED <<pressTimers, notes, draggedNote, saveDebounceTimer,
                   isSaving, timeSinceLastSave, started, pollTimer, pollDue,
                   fetches, writes, raf, stamp, stampUsed, sinceSuccess,
                   burst, sinceCall, isUpdating>>

\* ---------------------------------------------------------------- time
Elapse(t) == IF t = NoTimer THEN NoTimer ELSE t - TimeStep
Age(t) == IF t = NoTimer THEN NoTimer
          ELSE IF t + TimeStep > MIN_SAVE_INTERVAL THEN MIN_SAVE_INTERVAL
          ELSE t + TimeStep

\* TimeStep ms pass; no timer callback is overdue and the queued animation
\* frame (due within the step) has run
Tick ==
    /\ gestures' = gestures
    /\ started
    /\ longPressTimer # 0 /\ saveDebounceTimer # 0 /\ ~pollDue
    /\ ~Due(pressTimers)
    /\ raf = <<>>
    /\ longPressTimer' = Elapse(longPressTimer)
    /\ pressTimers' = [i \in DOMAIN pressTimers |->
                         [pressTimers[i] EXCEPT !.left = Elapse(@)]]
    /\ saveDebounceTimer' = Elapse(saveDebounceTimer)
    /\ timeSinceLastSave' = Age(timeSinceLastSave)
    /\ sinceSuccess' = Age(sinceSuccess)
    /\ sinceCall' = IF sinceCall = NoTimer THEN NoTimer ELSE sinceCall + TimeStep
    /\ pollDue' \in IF pollTimer THEN BOOLEAN ELSE {FALSE}
    /\ stamp' = IF stampUsed THEN stamp + 1 ELSE stamp
    /\ stampUsed' = FALSE
    /\ ev' = Event("tick")
    /\ UNCHANGED <<notes, selectedNoteId, draggedNote, isSaving, started,
                   pollTimer, fetches, writes, raf, burst, isUpdating>>

Next ==
    \/ DOMContentLoaded
    \/ PollTick
    \/ BeforeUnload
    \/ \E resp \in GetResponses : LoadSettle(resp)
    \/ DebounceFire
    \/ \E resp \in PostResponses : WriteSettle(resp)
    \/ \E r \in Rand, pos \in NewPositions : CreateNewNote(r, pos)
    \/ DeleteSelectedNote
    \/ \E id \in Targets(notes), c \in Contents : Input(id, c)
    \/ \E id \in Targets(notes) \cup {AbsentId}, s \in Sizes : Resize(id, s)
    \/ \E id \in Targets(notes) : PointerDown(id)
    \/ \E pos \in Positions : PointerMove(pos)
    \/ AnimationFrame
    \/ PointerUp
    \/ LongPress
    \/ LongPressOverwritten
    \/ Tick

Spec == Init /\ [][Next]_vars

\* the event loop at work: time passes, a timer that is due runs its
\* callback, a queued animation frame runs, and a request in flight is
\* answered in the end (with success: the case liveness is asked for)
Fairness ==
    /\ WF_vars(Tick)
    /\ WF_vars(DebounceFire)
    /\ WF_vars(LongPress)
    /\ WF_vars(LongPressOverwritten)
    /\ WF_vars(AnimationFrame)
    /\ WF_vars(PollTick)
    /\ WF_vars(WriteSettle("success"))
    /\ WF_vars(\E s \in Snapshots : LoadSettle([kind |-> "array", notes |-> s]))

FairSpec == Spec /\ Fairness

\* ---------------------------------------------------------------- second copy
\* The earlier copy of the script (lines 443-847).  It has no isSaving and no
\* lastSaveTime: loadNotesFromAPI has no guard, the interval callback looks at
\* isUpdating and draggedNote, and every writer, createNewNote and
\* deleteSelectedNote included, goes through the debounce timer, whose
\* callback issues the POST whatever is in flight.  The handlers whose code
\* is the same in both copies are the actions of the first copy: the
\* continuation of loadNotesFromAPI (LoadSettle), pointermove, the long-press
\* callbacks, beforeunload.

\* loadNotesFromAPI up to `await fetch(API_URL)`: the GET, behind no guard
LoadNotesFromAPI_Copy2(e) ==
    /\ fetches < MaxFetches
    /\ fetches' = fetches + 1
    /\ ev' = [e EXCEPT !.fetch = TRUE]

\* the DOMContentLoaded handler: loadNotesFromAPI(true); startPolling()
DOMContentLoaded_Copy2 ==
    /\ gestures' = gestures
    /\ ~started
    /\ started' = TRUE
    /\ pollTimer' = TRUE
    /\ LoadNotesFromAPI_Copy2(Event("DOMContentLoaded"))
    /\ UNCHANGED <<notes, selectedNoteId, draggedNote, longPressTimer,
                   pressTimers, saveDebounceTimer, isSaving, isUpdating,
                   timeSinceLastSave, pollDue, writes, raf, stamp, stampUsed,
                   sinceSuccess, burst, sinceCall>>

\* line 558: !isUpdating && !draggedNote
Idle_Copy2 == ~isUpdating /\ draggedNote = NoId

\* the setInterval callback of startPolling
PollTick_Copy2 ==
    /\ gestures' = gestures
    /\ pollTimer
    /\ pollDue
    /\ pollDue' = FALSE
    /\ IF Idle_Copy2
       THEN LoadNotesFromAPI_Copy2(Event("poll"))
       ELSE /\ ev' = Event("poll")
            /\ UNCHANGED fetches
    /\ UNCHANGED <<notes, selectedNoteId, draggedNote, longPressTimer,
                   pressTimers, saveDebounceTimer, isSaving, isUpdating,
                   timeSinceLastSave, started, pollTimer, writes, raf, stamp,
                   stampUsed, sinceSuccess, burst, sinceCall>>

\* saveNotesToAPI: clearTimeout of the pending timer, then a new timer
SaveNotesToAPI_Copy2 == DEBOUNCE_DELAY_Copy2

\* the setTimeout callback of saveNotesToAPI up to `await fetch`: the POST
DebounceFire_Copy2 ==
    /\ gestures' = gestures
    /\ saveDebounceTimer = 0
    /\ saveDebounceTimer' = NoTimer
    /\ burst' = NoBurst
    /\ sinceCall' = NoTimer
    /\ writes < MaxInFlight
    /\ writes' = writes + 1
    /\ ev' = [Event("debounceFire") EXCEPT !.body = Body(notes),
                                           !.burst = burst,
                                           !.waited = sinceCall]
    /\ UNCHANGED <<notes, selectedNoteId, draggedNote, longPressTimer,
                   pressTimers, isSaving, isUpdating, timeSinceLastSave,
                   started, pollTimer, pollDue, fetches, raf, stamp,
                   stampUsed, sinceSuccess>>

\* the continuation of the callback after its awaits: it only logs
WriteSettle_Copy2(resp) ==
    /\ gestures' = gestures
    /\ writes > 0
    /\ writes' = writes - 1
    /\ ev' = [Event("writeSettle") EXCEPT !.resp = resp]
    /\ UNCHANGED <<notes, selectedNoteId, draggedNote, longPressTimer,
                   pressTimers, saveDebounceTimer, isSaving, isUpdating,
                   timeSinceLastSave, started, pollTimer, pollDue, fetches,
                   raf, stamp, stampUsed, sinceSuccess, burst, sinceCall>>

\* createNewNote: isUpdating is set and, at the end of the same run, reset;
\* the note is pushed and rendered, and saveNotesToAPI() starts the timer
CreateNewNote_Copy2(r, pos) ==
    /\ Gesture
    /\ started
    /\ Len(notes) < MaxNotes
    /\ stamp <= MaxStamps
    /\ notes' = Append(notes, [id |-> generateId(r), content |-> "",
                               x |-> pos[1], y |-> pos[2],
                               width |-> NewWidth, height |-> NewHeight,
                               keys |-> StdKeys])
    /\ stampUsed' = TRUE
    /\ saveDebounceTimer' = SaveNotesToAPI_Copy2
    /\ sinceCall' = 0
    /\ isUpdating' = FALSE
    /\ ev' = [Event("create") EXCEPT !.render = TRUE, !.burst = burst,
                                     !.waited = sinceCall]
    /\ UNCHANGED <<selectedNoteId, draggedNote, longPressTimer, pressTimers,
                   isSaving, timeSinceLastSave, started, pollTimer, pollDue,
                   fetches, writes, raf, stamp, sinceSuccess, burst>>

\* deleteSelectedNote: the return of line 621, or the note is filtered out,
\* the board rendered, and saveNotesToAPI() starts the timer
DeleteSelectedNote_Copy2 ==
    /\ Gesture
    /\ started
    /\ IF NothingSelected
       THEN /\ ev' = Event("delete")
            /\ UNCHANGED <<notes, selectedNoteId, saveDebounceTimer,
                           sinceCall, isUpdating>>
       ELSE /\ notes' = Filter(notes, selectedNoteId)
            /\ selectedNoteId' = NoId
            /\ saveDebounceTimer' = SaveNotesToAPI_Copy2
            /\ sinceCall' = 0
            /\ isUpdating' = FALSE
            /\ ev' = [Event("delete") EXCEPT !.render = TRUE, !.burst = burst,
                                             !.waited = sinceCall]
    /\ UNCHANGED <<draggedNote, longPressTimer, pressTimers, isSaving,
                   timeSinceLastSave, started, pollTimer, pollDue, fetches,
                   writes, raf, stamp, stampUsed, sinceSuccess, burst>>

\* the three mutators: notes.find, the assignments, saveNotesToAPI()
Update_Copy2(calls, op) ==
    LET hits == SelectSeq(calls, LAMBDA c : Find(notes, c.id) # 0)
        last == hits[Len(hits)]
    IN IF hits # <<>>
       THEN /\ notes' = AssignAll(notes, calls)
            /\ saveDebounceTimer' = SaveNotesToAPI_Copy2
            /\ sinceCall' = 0
            /\ burst' = IF op # "content" THEN burst
                        ELSE [id |-> last.id, content |-> last.fields.content,
                              n |-> IF burst.id = last.id THEN burst.n + 1 ELSE 1]
            /\ ev' = [Event(op) EXCEPT !.burst = burst', !.id = last.id,
                                       !.waited = IF Len(hits) > 1 THEN 0
                                                  ELSE sinceCall]
       ELSE /\ UNCHANGED <<notes, saveDebounceTimer, burst, sinceCall>>
            /\ ev' = [Event(op) EXCEPT !.id = calls[Len(calls)].id]

updateNoteContent_Copy2(id, content) ==
    Update_Copy2(<<[id |-> id, fields |-> [content |-> content]]>>, "content")
updateNotePosition_Copy2(frames) ==
    Update_Copy2([i \in 1 .. Len(frames) |->
                     [id |-> frames[i][1],
                      fields |-> [x |-> frames[i][2], y |-> frames[i][3]]]],
                 "position")
updateNoteSize_Copy2(id, width, height) ==
    Update_Copy2(<<[id |-> id, fields |-> [width |-> width, height |-> height]]>>,
                 "size")

\* the textarea's input listener
Input_Copy2(id, content) ==
    /\ Gesture
    /\ started
    /\ updateNoteContent_Copy2(id, content)
    /\ UNCHANGED <<selectedNoteId, draggedNote, longPressTimer, pressTimers,
                   isSaving, isUpdating, timeSinceLastSave, started,
                   pollTimer, pollDue, fetches, writes, raf, stamp,
                   stampUsed, sinceSuccess>>

\* the ResizeObserver callback of a card
Resize_Copy2(id, size) ==
    /\ Gesture
    /\ started
    /\ updateNoteSize_Copy2(id, size[1], size[2])
    /\ UNCHANGED <<selectedNoteId, draggedNote, longPressTimer, pressTimers,
                   isSaving, isUpdating, timeSinceLastSave, started,
                   pollTimer, pollDue, fetches, writes, raf, stamp,
                   stampUsed, sinceSuccess>>

\* pointerdown on the card of note `id`, away from its resize corner: as in
\* the first copy, and isUpdating = true
PointerDown_Copy2(id) ==
    /\ Gesture
    /\ started
    /\ Has(notes, id)
    /\ pressTimers' = IF longPressTimer = NoTimer THEN pressTimers
                      ELSE Append(pressTimers, [left |-> longPressTimer,
                                                id |-> draggedNote])
    /\ longPressTimer' = LONG_PRESS_DURATION
    /\ draggedNote' = id
    /\ isUpdating' = TRUE
    /\ ev' = Event("pointerdown")
    /\ UNCHANGED <<notes, selectedNoteId, saveDebounceTimer, isSaving,
                   timeSinceLastSave, started, pollTimer, pollDue, fetches,
                   writes, raf, stamp, stampUsed, sinceSuccess, burst,
                   sinceCall>>

\* an animation frame: the callbacks pointermove has queued run in order
AnimationFrame_Copy2 ==
    /\ gestures' = gestures
    /\ raf # <<>>
    /\ updateNotePosition_Copy2(raf)
    /\ raf' = <<>>
    /\ UNCHANGED <<selectedNoteId, draggedNote, longPressTimer, pressTimers,
                   isSaving, isUpdating, timeSinceLastSave, started,
                   pollTimer, pollDue, fetches, writes, stamp, stampUsed,
                   sinceSuccess>>

\* pointerup: as in the first copy, and isUpdating = false
PointerUp_Copy2 ==
    /\ Gesture
    /\ draggedNote # NoId
    /\ longPressTimer' = NoTimer
    /\ draggedNote' = NoId
    /\ isUpdating' = FALSE
    /\ ev' = Event("pointerup")
    /\ UNCHANGED <<pressTimers, notes, selectedNoteId, saveDebounceTimer,
                   isSaving, timeSinceLastSave, started, pollTimer, pollDue,
                   fetches, writes, raf, stamp, stampUsed, sinceSuccess,
                   burst, sinceCall>>

Next_Copy2 ==
    \/ DOMContentLoaded_Copy2
    \/ PollTick_Copy2
    \/ BeforeUnload
    \/ \E resp \in GetResponses : LoadSettle(resp)
    \/ DebounceFire_Copy2
    \/ \E resp \in PostResponses : WriteSettle_Copy2(resp)
    \/ \E r \in Rand, pos \in NewPositions : CreateNewNote_Copy2(r, pos)
    \/ DeleteSelectedNote_Copy2
    \/ \E id \in Targets(notes), c \in Contents : Input_Copy2(id, c)
    \/ \E id \in Targets(notes) \cup {AbsentId}, s \in Sizes : Resize_Copy2(id, s)
    \/ \E id \in Targets(notes) : PointerDown_Copy2(id)
    \/ \E pos \in Positions : PointerMove(pos)
    \/ AnimationFrame_Copy2
    \/ PointerUp_Copy2
    \/ LongPress
    \/ LongPressOverwritten
    \/ Tick

Spec_Copy2 == Init /\ [][Next_Copy2]_vars

\* ---------------------------------------------------------------- properties
\* position of note `id` on board `ns`
Pos(ns, id) ==
    IF Has(ns, id) THEN <<ns[Find(ns, id)].x, ns[Find(ns, id)].y>> ELSE <<-1, -1>>

\* a call of loadNotesFromAPI has just run
LoadCalled == ev.op \in {"poll", "DOMContentLoaded"}

\* C1: while a note is being dragged, the answer to a GET, whenever that GET
\* was issued, does not change the position of the dragged note on the board.
C1_NoClobberDuringDrag ==
    [][(draggedNote # NoId /\ ev'.op = "loadSettle")
          => Pos(notes', draggedNote) = Pos(notes, draggedNote)]_vars

\* C2: a call of loadNotesFromAPI less than MIN_SAVE_INTERVAL after a write
\* settled with success issues no GET.
C2_PollSuppression ==
    (LoadCalled /\ sinceSuccess < MIN_SAVE_INTERVAL) => ~ev.fetch

\* C2: the interval callback has run within the grace window, nothing in
\* flight and nothing dragged, and has issued no GET.
C2_SkippedInGrace ==
    /\ ev.op = "poll"
    /\ sinceSuccess < MIN_SAVE_INTERVAL
    /\ sinceSuccess > 0
    /\ writes = 0
    /\ ~isSaving
    /\ draggedNote = NoId
    /\ ~ev.fetch

\* C3: the interval callback issues no GET while a POST is in flight or a
\* note is dragged, overlapping POSTs included.
C3_NoFetchWhileWriting ==
    (ev.op = "poll" /\ (writes > 0 \/ draggedNote # NoId)) => ~ev.fetch
\* the POST body holds note `id` with content `content`
BodyHas(body, id, content) ==
    \E i \in 1 .. Len(body) :
        /\ \E k \in 1 .. Len(body[i]) : body[i][k] = <<"id", id>>
        /\ \E k \in 1 .. Len(body[i]) : body[i][k] = <<"content", content>>

\* the debounce timer armed by content edits of one note has just expired
BurstFired == ev.op = "debounceFire" /\ ev.burst.n > 0

\* C4: the content edits of a note that follow each other within
\* DEBOUNCE_DELAY end in one POST whose body holds the last content: when the
\* timer those edits armed expires, a POST holding that content is issued.
C4_OneWriteForBurst ==
    BurstFired => BodyHas(ev.body, ev.burst.id, ev.burst.content)

\* a create, or a delete with a note selected, has just run
Structural == ev.op \in {"create", "delete"} /\ ev.render

\* C5: a create or a delete issues its POST in the same handler run and
\* leaves no debounce timer pending.  (Holds of the first copy, Spec; the
\* second copy, Spec_Copy2, violates it.)
C5_StructuralBypass ==
    Structural => (ev.body = Body(notes) /\ writes > 0 /\ saveDebounceTimer = NoTimer)

\* C5: a note was created while the timer of a content edit was pending.
C5_CreateWhilePending ==
    /\ ev.op = "create"
    /\ ev.burst.n > 0
    /\ ev.body = Body(notes)
    /\ saveDebounceTimer = NoTimer

\* C5: the selected note was deleted while the timer of a content edit was
\* pending.
C5_DeleteWhilePending ==
    /\ ev.op = "delete"
    /\ ev.render
    /\ ev.burst.n > 0
    /\ ev.body = Body(notes)
    /\ saveDebounceTimer = NoTimer

\* C6: at most one POST is in flight.
C6_AtMostOneWrite == writes <= 1

\* the values of the fields of the notes, whatever the order of the properties
Fields == {"id", "content", "x", "y", "width", "height"}
SameNotes(a, b) ==
    /\ Len(a) = Len(b)
    /\ \A i \in 1 .. Len(a) : \A k \in Fields : a[i][k] = b[i][k]

\* C7: a snapshot with the same notes as the board, field for field and in the
\* same order, is neither assigned to `notes` nor rendered.
C7_Idempotent ==
    [][(ev'.op = "loadSettle" /\ ev'.resp.kind = "array"
            /\ SameNotes(notes, ev'.resp.notes))
          => (~ev'.replace /\ ~ev'.render)]_vars

\* C8: once a well-formed snapshot has been handled the board is that
\* snapshot: a snapshot that differs from the board replaces it, and the
\* board is rendered.
C8_FullReplace ==
    (ev.op = "loadSettle" /\ ev.resp.kind = "array")
        => (notes = ev.resp.notes /\ (ev.replace <=> ev.render))

\* C8: the snapshot [A, B] has replaced the board.
C8_ReplacedByAB ==
    /\ ev.op = "loadSettle"
    /\ ev.replace
    /\ ev.resp.notes = <<NoteA, NoteB>>
    /\ notes = <<NoteA, NoteB>>

\* C9: a GET that fails, or is answered without an array `notes`, leaves the
\* board as it is, renders nothing, issues no GET and sets no timer.
C9_FailedFetch ==
    [][(ev'.op = "loadSettle" /\ ev'.resp.kind # "array")
          => /\ notes' = notes
             /\ ~ev'.render
             /\ fetches' = fetches - 1
             /\ UNCHANGED <<saveDebounceTimer, longPressTimer, pollDue>>]_vars

\* C9: a body without `notes` has been handled while the board held notes.
C9_MalformedIgnored ==
    /\ ev.op = "loadSettle"
    /\ ev.resp.kind = "missing"
    /\ notes # <<>>

\* C10: the notes of the board have pairwise distinct ids, after creates,
\* deletes, edits and the handling of snapshots.
C10_DistinctIds ==
    \A i, j \in 1 .. Len(notes) : i # j => notes[i].id # notes[j].id

\* C11: when the debounce timer expires while isSaving is true, no POST is
\* issued, the number of POSTs in flight stays as it was, and no debounce
\* timer is pending afterwards.
C11_DropWhileSaving ==
    (ev.op = "debounceFire" /\ ev.saving)
        => (ev.body = NoBody /\ saveDebounceTimer = NoTimer /\ isSaving)

\* C11: the timer of a content edit has expired while a POST was in flight.
C11_ExpiredWhileSaving ==
    /\ ev.op = "debounceFire"
    /\ ev.saving
    /\ ev.burst.n > 0
    /\ writes > 0
    /\ ev.body = NoBody

\* C12: the time since lastSaveTime is the time since a POST last settled with
\* status success: lastSaveTime is set to Date.now() by such a settlement
\* and by nothing else, a POST that fails or is rejected leaves it.
C12_LastSaveTimeOnSuccess == timeSinceLastSave = sinceSuccess

\* C12: a POST has failed or was rejected inside the grace window an earlier
\* success opened, and the window is as that success left it.
C12_FailureKeepsWindow ==
    /\ ev.op = "writeSettle"
    /\ ev.resp # "success"
    /\ timeSinceLastSave > 0
    /\ timeSinceLastSave < MIN_SAVE_INTERVAL

\* the handlers that mutate the board locally
LocalMutations == {"content", "position", "size", "create", "delete"}

\* a POST has just failed or been rejected
WriteFailed == ev.op = "writeSettle" /\ ev.resp # "success"

\* C13 as stated: after a POST has failed, the next handler to run issues no
\* POST unless it is a local mutation.
C13_NoWriteUntilMutation ==
    [][(WriteFailed /\ ev'.op \notin LocalMutations) => ev'.body = NoBody]_vars

\* C13 amended: the failure of a POST issues no POST, starts or restarts no
\* timer and leaves the board as it is; a POST is issued only by a create, a
\* delete or the expiry of the debounce timer, and only an edit, a drag or a
\* resize starts that timer.
C13_NoRetry ==
    [][/\ WriteFailed' => /\ ev'.body = NoBody
                          /\ notes' = notes
                          /\ writes' = writes - 1
                          /\ UNCHANGED <<saveDebounceTimer, longPressTimer, pollDue>>
       /\ ev'.body # NoBody => ev'.op \in {"create", "delete", "debounceFire"}
       /\ saveDebounceTimer' > saveDebounceTimer
             => ev'.op \in {"content", "position", "size"}]_vars

\* C13: a POST has failed while the timer of an earlier edit was pending, and
\* the timer runs on.
C13_FailedWithTimerPending ==
    /\ WriteFailed
    /\ ev.resp = "error"
    /\ saveDebounceTimer > 0
    /\ notes # <<>>

\* C14: the load of the DOMContentLoaded handler issues a GET: none of the
\* guards of loadNotesFromAPI skips it.
C14_InitialLoadFetches == ev.op = "DOMContentLoaded" => ev.fetch

\* C14: the DOMContentLoaded handler has run and its GET is in flight.
C14_InitialLoadIssued ==
    /\ ev.op = "DOMContentLoaded"
    /\ ev.fetch
    /\ fetches = 1
    /\ started

\* the three mutators
EditOps == {"content", "position", "size"}

\* C15: a mutator called with an id that no note of the board has leaves the
\* board and the debounce timer as they are and issues no POST.
C15_AbsentIdNoOp ==
    [][(ev'.op \in EditOps /\ ~Has(notes, ev'.id))
          => /\ notes' = notes
             /\ saveDebounceTimer' = saveDebounceTimer
             /\ ev'.body = NoBody]_vars

\* C15: a mutator has run for an id that is not on the board, the board
\* holding other notes and no timer pending.
C15_AbsentIdAddressed ==
    /\ ev.op \in EditOps
    /\ ~Has(notes, ev.id)
    /\ notes # <<>>
    /\ saveDebounceTimer = NoTimer

\* C16: the body of every POST is the whole board as it is when the POST is
\* issued: after a create or a delete the board the handler has changed, for
\* the debounce callback the board at the expiry of the timer.
C16_WholeBoardWritten ==
    ev.body # NoBody => ev.body = JSONstringify(notes)

\* C16: the debounce callback has written an empty board: the edit that
\* started the timer found a note, a snapshot emptied the board since.
C16_WrittenAsAtExpiry ==
    /\ ev.op = "debounceFire"
    /\ ~ev.saving
    /\ notes = <<>>
    /\ ev.body = JSONstringify(notes)
    /\ writes > 0

\* C17: a snapshot is assigned to `notes` only when no POST is in flight and
\* at least MIN_SAVE_INTERVAL has passed since a POST last settled with
\* success, whenever the GET was issued.
C17_NoApplyWhileWriting ==
    (ev.op = "loadSettle" /\ ev.replace)
        => (writes = 0 /\ ~isSaving /\ sinceSuccess >= MIN_SAVE_INTERVAL)

\* content of note `id` on board `ns`
ContentOf(ns, id) ==
    IF Has(ns, id) THEN ns[Find(ns, id)].content ELSE "(no such note)"

\* C18: while the debounce timer of a content edit is pending, the handling
\* of a snapshot leaves the edited content on the board.
C18_NoLostUpdate ==
    [][(saveDebounceTimer # NoTimer /\ burst.n > 0 /\ ev'.op = "loadSettle")
          => ContentOf(notes', burst.id) = burst.content]_vars

\* C19: isSaving is true exactly when a POST is in flight.
C19_IsSavingAccurate == isSaving <=> writes > 0

\* the user has just typed `c` into a note of the board, as gesture number g
EditMade(c, g) ==
    ev.op = "content" /\ ev.burst.n > 0 /\ ev.burst.content = c /\ gestures = g

\* a POST has just been issued whose body holds a note with content `c`
Written(c) ==
    /\ ev.body # NoBody
    /\ \E i \in 1 .. Len(ev.body) :
          \E k \in 1 .. Len(ev.body[i]) : ev.body[i][k] = <<"content", c>>

\* a request has just failed: a POST not answered with success, a GET not
\* answered with an array of notes
RequestFailed ==
    \/ ev.op = "writeSettle" /\ ev.resp # "success"
    \/ ev.op = "loadSettle" /\ ev.resp.kind # "array"

\* C20: after a content edit, unless the user acts again or a request fails,
\* a POST whose body holds the edited content is issued in the end.
C20_EveryEditWritten ==
    \A c \in Contents, g \in 1 .. MaxGestures :
        [](EditMade(c, g) => <>(Written(c) \/ gestures > g \/ RequestFailed))

\* C21: at most one GET is outstanding at a time, so that snapshots are
\* applied in the order of their GETs: when a snapshot is assigned to `notes`
\* no other GET is waiting for its answer.
C21_OneFetchOutstanding ==
    (ev.op = "loadSettle" /\ ev.replace) => fetches = 0

\* C22: at most one debounce timer is pending, and it is the one of the last
\* call of saveNotesToAPI: a pending timer expires DEBOUNCE_DELAY after that
\* call, whatever an earlier call had scheduled, and the callback that runs
\* was scheduled DEBOUNCE_DELAY before.
C22_LastCallWins ==
    /\ saveDebounceTimer # NoTimer
          => sinceCall # NoTimer /\ saveDebounceTimer + sinceCall = DEBOUNCE_DELAY
    /\ ev.op = "debounceFire" => ev.waited = DEBOUNCE_DELAY

\* C22: a mutator has called saveNotesToAPI while the timer of a call made
\* TimeStep before was pending (due, its callback not yet run), and the timer
\* now runs for DEBOUNCE_DELAY.
C22_TimerRestarted ==
    /\ ev.op \in EditOps
    /\ ev.waited = TimeStep
    /\ sinceCall = 0
    /\ saveDebounceTimer = DEBOUNCE_DELAY

\* C23: a delete requested while no note is selected changes nothing: the
\* board, isSaving and the debounce timer stay as they are, no POST is issued
\* and nothing is rendered.
C23_DeleteWithoutSelection ==
    [][(ev'.op = "delete" /\ selectedNoteId = NoId)
          => /\ notes' = notes
             /\ selectedNoteId' = selectedNoteId
             /\ isSaving' = isSaving
             /\ writes' = writes
             /\ saveDebounceTimer' = saveDebounceTimer
             /\ ev'.body = NoBody
             /\ ~ev'.render]_vars

\* C23: a delete has been requested with no note selected, while the board
\* held notes, the debounce timer was pending and no write was in flight.
C23_DeleteIgnoredWhilePending ==
    /\ ev.op = "delete"
    /\ ~ev.render
    /\ selectedNoteId = NoId
    /\ notes # <<>>
    /\ saveDebounceTimer > 0
    /\ ~isSaving

====
